---------------------------- MODULE Spec2Model ----------------------------
(***************************************************************************)
(* A model of the xtokens pallet (src/xtokens/src/lib.rs): the eight       *)
(* dispatchable entry points, the request validation, the route            *)
(* classifier, the XCM program builders, local execution and the           *)
(* transactional boundary around every dispatch.                           *)
(*                                                                         *)
(* Option<T> values are modelled as sets: None is {} and Some(x) is {x}.   *)
(* A DispatchResult is a record [res, ctx]: res is "Ok" or the name of the *)
(* pallet error, ctx is the storage as the body left it.                   *)
(***************************************************************************)
EXTENDS Integers, Sequences, FiniteSets, TLC

\* ------------------------------------------------------------------------
\* Bounds of the model
\* ------------------------------------------------------------------------

\* Largest amount a request names for one asset.
MaxAmount == 2

\* Balance the sender holds of the hub asset in the initial state (one less
\* of every other asset).
InitBalance == 2

\* ------------------------------------------------------------------------
\* Runtime configuration (the pallet's Config, instantiated as in a
\* parachain 2000 talking to its relay chain and to siblings 3000 and 4000)
\* ------------------------------------------------------------------------

SelfParaId == 2000

BlockedParaId == 4000

MaxAssetsForTransfer == 3

MinXcmFeeHub == 1

MinXcmFeeSibling == 1

MaxTransactSize == 256

\* ------------------------------------------------------------------------
\* Locations
\* ------------------------------------------------------------------------

None == {}

Some(x) == {x}

Unwrap(o) == CHOOSE x \in o : TRUE

Parachain(id) == <<"Parachain", id>>

AccountId32(a) == <<"AccountId32", a>>

GeneralKey(k) == <<"GeneralKey", k>>

Loc(p, i) == [parents |-> p, interior |-> i]

Parent == Loc(1, <<>>)

IsParachain(j) == j[1] = "Parachain"

\* orml_traits::location::Parse::chain_part
chain_part(loc) ==
    IF loc.parents = 1 /\ Len(loc.interior) > 0 /\ IsParachain(loc.interior[1])
    THEN Some(Loc(1, <<loc.interior[1]>>))
    ELSE IF loc.parents = 1
    THEN Some(Parent)
    ELSE IF loc.parents = 0 /\ Len(loc.interior) > 0 /\ IsParachain(loc.interior[1])
    THEN Some(Loc(0, <<loc.interior[1]>>))
    ELSE None

RECURSIVE StripParachains(_)
StripParachains(js) ==
    IF js # <<>> /\ IsParachain(js[1]) THEN StripParachains(Tail(js)) ELSE js

\* orml_traits::location::Parse::non_chain_part
non_chain_part(loc) ==
    LET rest == StripParachains(loc.interior)
    IN  IF rest # <<>> THEN Some(Loc(0, rest)) ELSE None

\* MultiLocation::append_with
append_with(loc, js) == Loc(loc.parents, loc.interior \o js)

\* Derived Ord on Junction: the variant first, then its payload.
JunctionKey(j) ==
    (CASE j[1] = "Parachain" -> 0
       [] j[1] = "AccountId32" -> 1
       [] OTHER -> 6) * 100000 + j[2]

RECURSIVE SeqLess(_, _)
SeqLess(a, b) ==
    IF a = <<>> \/ b = <<>> THEN FALSE
    ELSE IF JunctionKey(a[1]) # JunctionKey(b[1])
    THEN JunctionKey(a[1]) < JunctionKey(b[1])
    ELSE SeqLess(Tail(a), Tail(b))

\* Derived Ord on MultiLocation: parents, then Junctions (Here < X1 < X2 ...,
\* then the junctions in order).
LocLess(a, b) ==
    IF a.parents # b.parents THEN a.parents < b.parents
    ELSE IF Len(a.interior) # Len(b.interior) THEN Len(a.interior) < Len(b.interior)
    ELSE SeqLess(a.interior, b.interior)

\* ------------------------------------------------------------------------
\* Reanchoring (xcm::v1::MultiLocation::reanchor)
\* ------------------------------------------------------------------------

Ancestry == Loc(0, <<Parachain(SelfParaId)>>)

Min2(a, b) == IF a < b THEN a ELSE b

DropLast(s, n) == SubSeq(s, 1, Len(s) - n)

TakeLast(s, n) == SubSeq(s, Len(s) - n + 1, Len(s))

\* ancestry.inverted(target): how target addresses this chain.
inverted(ancestry, target) ==
    LET n == Min2(target.parents, Len(ancestry.interior))
        pad == [i \in 1..(target.parents - n) |-> <<"OnlyChild", 0>>]
    IN  Loc(Len(target.interior), pad \o TakeLast(ancestry.interior, n))

\* self.prepend_with(prefix): the prefix's trailing junctions cancel against
\* self's parents.
prepend_with(self, prefix) ==
    LET c == Min2(self.parents, Len(prefix.interior))
    IN  Loc(prefix.parents + (self.parents - c),
            DropLast(prefix.interior, c) \o self.interior)

RECURSIVE simplify(_, _)
simplify(self, context) ==
    IF Len(context) < self.parents \/ self.parents = 0 \/ self.interior = <<>>
    THEN self
    ELSE IF self.interior[1] = context[Len(context) - self.parents + 1]
    THEN simplify(Loc(self.parents - 1, Tail(self.interior)), context)
    ELSE self

reanchor(loc, target, ancestry) ==
    simplify(prepend_with(loc, inverted(ancestry, target)), target.interior)

\* ------------------------------------------------------------------------
\* Assets
\* ------------------------------------------------------------------------

\* A MultiAsset: fungible = TRUE carries Fungible(amount), fungible = FALSE is
\* a NonFungible instance (amount is the instance number).
Asset(id, n) == [id |-> id, fungible |-> TRUE, amount |-> n]

NonFungibleAsset(id, inst) == [id |-> id, fungible |-> FALSE, amount |-> inst]

\* Derived Ord on Fungibility: Fungible(_) < NonFungible(_), then the payload.
FunLess(a, b) ==
    IF a.fungible # b.fungible THEN a.fungible
    ELSE a.amount < b.amount

\* Derived Ord on MultiAsset: id, then fun.
AssetLess(a, b) ==
    IF a.id # b.id THEN LocLess(a.id, b.id) ELSE FunLess(a, b)

\* MultiAsset::reanchored: None when the reanchored id would need more than
\* the 8 junctions a MultiLocation holds.
WithId(asset, id) ==
    IF Len(id.interior) > 8 THEN None ELSE Some([asset EXCEPT !.id = id])

reanchored(asset, target, ancestry) ==
    WithId(asset, reanchor(asset.id, target, ancestry))

RECURSIVE InsertSorted(_, _)
InsertSorted(s, a) ==
    IF s = <<>> THEN <<a>>
    ELSE IF AssetLess(a, s[1]) THEN <<a>> \o s
    ELSE <<s[1]>> \o InsertSorted(Tail(s), a)

\* MultiAssets::push: a fungible asset is added to the entry of the same id
\* (the first fungible one), anything else is inserted and the vector sorted.
\* The addition saturates at u128::MAX, which no bounded amount reaches.
push(assets, a) ==
    LET hits == {i \in 1..Len(assets) : assets[i].id = a.id /\ assets[i].fungible}
    IN  IF a.fungible /\ hits # {}
        THEN LET i == CHOOSE k \in hits : \A m \in hits : k <= m
             IN  [assets EXCEPT ![i].amount = assets[i].amount + a.amount]
        ELSE InsertSorted(assets, a)

\* MultiAssets::get
get(s, i) == IF i + 1 \in 1..Len(s) THEN Some(s[i + 1]) ELSE None

\* ------------------------------------------------------------------------
\* Injected configuration
\* ------------------------------------------------------------------------

\* T::SelfLocation
SelfLocation == Loc(1, <<Parachain(SelfParaId)>>)

\* The sibling parachain requests are sent to.
Sibling == Loc(1, <<Parachain(3000)>>)

\* The asset ids of the model, in canonical order:
\*   NoReserveId < HubId < SelfId < SiblingId
NoReserveId == Loc(0, <<GeneralKey(1)>>)

HubId == Parent

SelfId == Loc(1, <<Parachain(SelfParaId), GeneralKey(1)>>)

SiblingId == Loc(1, <<Parachain(3000), GeneralKey(1)>>)

AssetIds == {NoReserveId, HubId, SelfId, SiblingId}

\* T::CurrencyIdConvert: "BAD" is a currency that is not cross-chain
\* transferable.
CurrencyIds == {"NORES", "HUB", "SELF", "SIBLING", "BAD"}

CurrencyIdConvert(c) ==
    CASE c = "NORES" -> Some(NoReserveId)
      [] c = "HUB" -> Some(HubId)
      [] c = "SELF" -> Some(SelfId)
      [] c = "SIBLING" -> Some(SiblingId)
      [] OTHER -> None

\* T::AccountIdToMultiLocation
AccountIdToMultiLocation(who) == Loc(0, <<AccountId32(who)>>)

\* T::ReserveProvider (orml_traits::location::AbsoluteReserveProvider): the
\* chain part of the asset id.
reserve(asset) == chain_part(asset.id)

\* T::MinXcmFee
MinXcmFee(loc) ==
    IF loc = Parent THEN Some(MinXcmFeeHub)
    ELSE IF loc = Sibling THEN Some(MinXcmFeeSibling)
    ELSE None

\* T::MultiLocationsFilter: every location except those on the blocked
\* parachain.
MultiLocationsFilter(loc) ==
    ~(Len(loc.interior) > 0 /\ loc.interior[1] = Parachain(BlockedParaId))

\* ------------------------------------------------------------------------
\* Storage touched by a dispatch, and the collaborators that change it
\* ------------------------------------------------------------------------

\* ctx.bal: the sender's balance per asset id; ctx.queue: the outbound
\* messages; ctx.events: the deposited events; ctx.trace: every program the
\* dispatch handed to the executor or to the transport, with its outcome
\* (kept for observation, also when the dispatch is rolled back).
Ok(ctx) == [res |-> "Ok", ctx |-> ctx]

Err(e, ctx) == [res |-> e, ctx |-> ctx]

\* The assets a program takes from its origin when executed locally: those
\* of its leading TransferReserveAsset or WithdrawAsset.
Withdrawn(msg) == msg[1].assets

RECURSIVE Debit(_, _)
Debit(bal, assets) ==
    IF assets = <<>> THEN bal
    ELSE Debit([bal EXCEPT ![assets[1].id] = @ - assets[1].amount], Tail(assets))

CanDebit(bal, assets) ==
    \A i \in 1..Len(assets) :
        /\ assets[i].id \in DOMAIN bal
        /\ bal[assets[i].id] >= assets[i].amount

\* The outbound message's destination: the dest of TransferReserveAsset or
\* the reserve of InitiateReserveWithdraw.
OutboundDest(msg) ==
    IF msg[1].op = "TransferReserveAsset" THEN msg[1].dest ELSE msg[2].reserve

RECURSIVE Instructions(_)
Instructions(msg) ==
    IF msg = <<>> THEN 0
    ELSE 1 + (IF "xcm" \in DOMAIN msg[1] THEN Instructions(msg[1].xcm) ELSE 0)
           + Instructions(Tail(msg))

\* T::Weigher::weight (FixedWeightBounds): one unit per instruction of the
\* program, nested ones included; None (unweighable) above 100 instructions.
Weigher(msg) ==
    IF Instructions(msg) > 100 THEN None ELSE Some(Instructions(msg))

Step(via, origin, to, msg, ok) ==
    [via |-> via, origin |-> origin, to |-> to, program |-> msg, ok |-> ok]

\* T::XcmExecutor::execute_xcm_in_credit(..).ensure_complete(): the assets
\* are taken from the origin's account and the remote part is queued for
\* the destination; incomplete when the account cannot cover them.
execute_xcm_in_credit(ctx, origin, msg) ==
    IF CanDebit(ctx.bal, Withdrawn(msg))
    THEN Ok([ctx EXCEPT
                !.trace = Append(@, Step("executor", origin, OutboundDest(msg), msg, TRUE)),
                !.bal = Debit(@, Withdrawn(msg)),
                !.queue = Append(@, [to |-> OutboundDest(msg), program |-> msg])])
    ELSE Err("XcmExecutionFailed",
             [ctx EXCEPT
                !.trace = Append(@, Step("executor", origin, OutboundDest(msg), msg, FALSE))])

\* T::XcmSender::send_xcm: the transport accepts the program or not
\* (sendOk is the transport's answer).
send_xcm(ctx, dest, msg, sendOk) ==
    IF sendOk
    THEN Ok([ctx EXCEPT
                !.trace = Append(@, Step("transport", dest, dest, msg, TRUE)),
                !.queue = Append(@, [to |-> dest, program |-> msg])])
    ELSE Err("SendFailure",
             [ctx EXCEPT !.trace = Append(@, Step("transport", dest, dest, msg, FALSE))])

\* ------------------------------------------------------------------------
\* Program builders
\* ------------------------------------------------------------------------

fungible_amount(asset) == IF asset.fungible THEN asset.amount ELSE 0

\* A half that keeps the whole amount.
half_whole(asset) == Asset(asset.id, fungible_amount(asset))

half(asset) == Asset(asset.id, fungible_amount(asset) \div 2)

\* checked_sub(..).expect("fee too low; qed"): a panic when amount exceeds
\* the asset's; the model marks it with the amount -1.
subtract_fee(asset, amount) ==
    IF fungible_amount(asset) >= amount
    THEN Asset(asset.id, fungible_amount(asset) - amount)
    ELSE Asset(asset.id, -1)

deposit_asset(recipient, max_assets) ==
    [op |-> "DepositAsset", assets |-> "All", max_assets |-> max_assets,
     beneficiary |-> recipient]

BuyExecution(fees, weight) ==
    IF fees = None THEN None
    ELSE Some([op |-> "BuyExecution", fees |-> Unwrap(fees), weight_limit |-> weight])

\* Option: None stands for Err(CannotReanchor).
buy_execution(asset, at, weight) ==
    BuyExecution(reanchored(asset, at, Ancestry), weight)

TransferReserveAsset(assets, dest, recipient, buy) ==
    IF buy = None THEN None
    ELSE Some(<<[op |-> "TransferReserveAsset", assets |-> assets, dest |-> dest,
                 xcm |-> <<Unwrap(buy), deposit_asset(recipient, Len(assets))>>]>>)

transfer_self_reserve_asset(assets, fee, dest, recipient, dest_weight) ==
    TransferReserveAsset(assets, dest, recipient, buy_execution(fee, dest, dest_weight))

InitiateReserveWithdraw(assets, reserve_loc, inner) ==
    <<[op |-> "WithdrawAsset", assets |-> assets],
      [op |-> "InitiateReserveWithdraw", assets |-> "All", reserve |-> reserve_loc,
       xcm |-> inner]>>

WithdrawToReserve(assets, reserve_loc, recipient, buy) ==
    IF buy = None THEN None
    ELSE Some(InitiateReserveWithdraw(
                  assets, reserve_loc,
                  <<Unwrap(buy), deposit_asset(recipient, Len(assets))>>))

transfer_to_reserve(assets, fee, reserve_loc, recipient, dest_weight) ==
    WithdrawToReserve(assets, reserve_loc, recipient,
                      buy_execution(fee, reserve_loc, dest_weight))

\* A forwarded destination that is never rewritten.
ReanchoredDest_never(reserve_loc, dest) == dest

\* The destination as the reserve forwards to it: a sibling parachain seen
\* from the relay chain is a child.
ReanchoredDest(reserve_loc, dest) ==
    IF reserve_loc = Parent /\ dest.parents = 1 /\ Len(dest.interior) = 1
       /\ IsParachain(dest.interior[1])
    THEN Loc(0, dest.interior)
    ELSE dest

WithdrawToNonReserve(assets, reserve_loc, dest, recipient, buy1, buy2) ==
    IF buy1 = None \/ buy2 = None THEN None
    ELSE Some(InitiateReserveWithdraw(
                  assets, reserve_loc,
                  <<Unwrap(buy1),
                    [op |-> "DepositReserveAsset", assets |-> "All",
                     max_assets |-> Len(assets),
                     dest |-> ReanchoredDest(reserve_loc, dest),
                     xcm |-> <<Unwrap(buy2), deposit_asset(recipient, Len(assets))>>]>>))

transfer_to_non_reserve(assets, fee, reserve_loc, dest, recipient, dest_weight) ==
    WithdrawToNonReserve(assets, reserve_loc, dest, recipient,
                         buy_execution(half(fee), reserve_loc, dest_weight),
                         buy_execution(half(fee), dest, dest_weight))

\* ------------------------------------------------------------------------
\* Route classifier
\* ------------------------------------------------------------------------

\* None stands for Err(InvalidDest).
ValidDest(chain, recipient) ==
    IF chain # None /\ recipient # None
    THEN Some([dest |-> Unwrap(chain), recipient |-> Unwrap(recipient)])
    ELSE None

ensure_valid_dest(dest) == ValidDest(chain_part(dest), non_chain_part(dest))

\* A classifier that does not look at the self location.
TransferKind_noself(reserve_loc, dest) ==
    IF reserve_loc = dest THEN "ToReserve" ELSE "ToNonReserve"

TransferKind(reserve_loc, dest) ==
    IF reserve_loc = SelfLocation THEN "SelfReserveAsset"
    ELSE IF reserve_loc = dest THEN "ToReserve"
    ELSE "ToNonReserve"

KindOf(reserve_opt, valid) ==
    IF valid = None THEN [res |-> "InvalidDest"]
    ELSE IF Unwrap(valid).dest = SelfLocation THEN [res |-> "NotCrossChainTransfer"]
    ELSE IF reserve_opt = None THEN [res |-> "AssetHasNoReserve"]
    ELSE [res |-> "Ok",
          kind |-> TransferKind(Unwrap(reserve_opt), Unwrap(valid).dest),
          dest |-> Unwrap(valid).dest,
          reserve |-> Unwrap(reserve_opt),
          recipient |-> Unwrap(valid).recipient]

transfer_kind(reserve_opt, dest) == KindOf(reserve_opt, ensure_valid_dest(dest))

\* The program of the kind found, for the recipient chosen.
BuildMsg(tk, assets, fee, recipient, dest_weight) ==
    CASE tk.kind = "SelfReserveAsset" ->
            transfer_self_reserve_asset(assets, fee, tk.dest, recipient, dest_weight)
      [] tk.kind = "ToReserve" ->
            transfer_to_reserve(assets, fee, tk.dest, recipient, dest_weight)
      [] OTHER ->
            transfer_to_non_reserve(assets, fee, tk.reserve, tk.dest, recipient,
                                    dest_weight)

WeighAndExecute(ctx, origin_location, msg) ==
    IF msg = None THEN Err("CannotReanchor", ctx)
    ELSE IF Weigher(Unwrap(msg)) = None THEN Err("UnweighableMessage", ctx)
    ELSE execute_xcm_in_credit(ctx, origin_location, Unwrap(msg))

ExecuteKind(ctx, origin_location, assets, fee, tk, maybe_recipient_override, dest_weight) ==
    IF tk.res # "Ok" THEN Err(tk.res, ctx)
    ELSE WeighAndExecute(
             ctx, origin_location,
             BuildMsg(tk, assets, fee,
                      IF maybe_recipient_override # None
                      THEN Unwrap(maybe_recipient_override)
                      ELSE tk.recipient,
                      dest_weight))

execute_and_send_reserve_kind_xcm(ctx, origin_location, assets, fee, reserve_opt, dest, maybe_recipient_override, dest_weight) ==
    ExecuteKind(ctx, origin_location, assets, fee, transfer_kind(reserve_opt, dest),
                maybe_recipient_override, dest_weight)

\* ------------------------------------------------------------------------
\* do_transfer_multiassets
\* ------------------------------------------------------------------------

\* if (fee != *asset && non_fee_reserve.is_none()) || asset_len == 1
NextNonFeeReserve(assets, fee, asset, non_fee_reserve) ==
    IF (fee # asset /\ non_fee_reserve = None) \/ Len(assets) = 1
    THEN reserve(asset)
    ELSE non_fee_reserve

\* The validation loop over the bundle, from index i (1-based) with the
\* non-fee reserve found so far.
RECURSIVE ReserveLoop(_, _, _, _)
ReserveLoop(assets, fee, i, non_fee_reserve) ==
    IF i > Len(assets) THEN [res |-> "Ok", non_fee_reserve |-> non_fee_reserve]
    ELSE IF ~(assets[i].fungible /\ assets[i].amount # 0) THEN [res |-> "InvalidAsset"]
    ELSE IF /\ NextNonFeeReserve(assets, fee, assets[i], non_fee_reserve) # None
            /\ NextNonFeeReserve(assets, fee, assets[i], non_fee_reserve)
                   # reserve(assets[i])
    THEN [res |-> "DistinctReserveForAssetAndFee"]
    ELSE ReserveLoop(assets, fee, i + 1,
                     NextNonFeeReserve(assets, fee, assets[i], non_fee_reserve))

\* A leg B bundle without the fee slot.
AssetsToDest_nofee(assets, fee, fee_to_dest, acc) ==
    SelectSeq(assets, LAMBDA a : a # fee)

\* The bundle of leg B: every asset equal to the fee is replaced by
\* fee_to_dest, the others are pushed unchanged.
RECURSIVE AssetsToDest(_, _, _, _)
AssetsToDest(assets, fee, fee_to_dest, acc) ==
    IF assets = <<>> THEN acc
    ELSE AssetsToDest(Tail(assets), fee, fee_to_dest,
                      push(acc, IF fee # assets[1] THEN assets[1] ELSE fee_to_dest))

\* A comparison that lets a fee equal to the minimum through.
FeeCoversMin_orEqual(fee_to_dest, fee) == ~AssetLess(fee, fee_to_dest)

\* ensure!(fee_to_dest < fee, FeeNotEnough)
FeeCoversMin(fee_to_dest, fee) == AssetLess(fee_to_dest, fee)

\* An event that reports the fee the reserve is paid, not the fee received.
TransferredMultiAssets_halved(who, assets, fee, dest) ==
    [sender |-> who, assets |-> assets, fee |-> half(fee), dest |-> dest]

\* Event::TransferredMultiAssets
TransferredMultiAssets(who, assets, fee, dest) ==
    [sender |-> who, assets |-> assets, fee |-> fee, dest |-> dest]

\* A split that stops after its first xcm.
LegB_skip(legA, origin_location, assets, fee, min_xcm_fee, non_fee_reserve, dest, dest_weight) == legA

\* A second xcm that is executed whatever the first returned.
LegB_always(legA, origin_location, assets, fee, min_xcm_fee, non_fee_reserve, dest, dest_weight) ==
    execute_and_send_reserve_kind_xcm(
        legA.ctx, origin_location,
        AssetsToDest(assets, fee, Asset(fee.id, min_xcm_fee), <<>>),
        Asset(fee.id, min_xcm_fee), non_fee_reserve, dest, None, dest_weight)

\* A second xcm that buys execution with the whole fee.
LegB_feewhole(legA, origin_location, assets, fee, min_xcm_fee, non_fee_reserve, dest, dest_weight) ==
    IF legA.res # "Ok" THEN legA
    ELSE execute_and_send_reserve_kind_xcm(
             legA.ctx, origin_location,
             AssetsToDest(assets, fee, Asset(fee.id, min_xcm_fee), <<>>),
             fee, non_fee_reserve, dest, None, dest_weight)

\* Second xcm, sent to the dest chain once the first is executed.
LegB(legA, origin_location, assets, fee, min_xcm_fee, non_fee_reserve, dest, dest_weight) ==
    IF legA.res # "Ok" THEN legA
    ELSE execute_and_send_reserve_kind_xcm(
             legA.ctx, origin_location,
             AssetsToDest(assets, fee, Asset(fee.id, min_xcm_fee), <<>>),
             Asset(fee.id, min_xcm_fee), non_fee_reserve, dest, None, dest_weight)

\* A first xcm without recipient override.
LegA_torecipient(ctx, origin_location, asset_to_fee_reserve, fee_reserve, dest, dest_weight) ==
    execute_and_send_reserve_kind_xcm(
        ctx, origin_location, push(<<>>, asset_to_fee_reserve), asset_to_fee_reserve,
        fee_reserve, dest, None, dest_weight)

\* First xcm, sent to the fee reserve chain and routed to the dest chain.
LegA(ctx, origin_location, asset_to_fee_reserve, fee_reserve, dest, dest_weight) ==
    execute_and_send_reserve_kind_xcm(
        ctx, origin_location, push(<<>>, asset_to_fee_reserve), asset_to_fee_reserve,
        fee_reserve, dest, Some(SelfLocation), dest_weight)

SplitWith(ctx, origin_location, assets, fee, fee_reserve, non_fee_reserve, dest, dest_weight, min_opt) ==
    IF min_opt = None THEN Err("MinXcmFeeNotDefined", ctx)
    ELSE IF ~FeeCoversMin(Asset(fee.id, Unwrap(min_opt)), fee)
    THEN Err("FeeNotEnough", ctx)
    ELSE LegB(LegA(ctx, origin_location, subtract_fee(fee, Unwrap(min_opt)),
                   fee_reserve, dest, dest_weight),
              origin_location, assets, fee, Unwrap(min_opt), non_fee_reserve, dest,
              dest_weight)

\* A split branch that accepts any destination chain.
SplitLegs_anydest(ctx, origin_location, assets, fee, fee_reserve, non_fee_reserve, dest, dest_weight) ==
    IF non_fee_reserve = None THEN Err("AssetHasNoReserve", ctx)
    ELSE SplitWith(ctx, origin_location, assets, fee, fee_reserve, non_fee_reserve,
                   dest, dest_weight, MinXcmFee(Unwrap(non_fee_reserve)))

\* A split branch that takes the minimum fee of the fee reserve.
SplitLegs_feereserve(ctx, origin_location, assets, fee, fee_reserve, non_fee_reserve, dest, dest_weight) ==
    IF non_fee_reserve # chain_part(dest) THEN Err("InvalidAsset", ctx)
    ELSE IF non_fee_reserve = None THEN Err("AssetHasNoReserve", ctx)
    ELSE SplitWith(ctx, origin_location, assets, fee, fee_reserve, non_fee_reserve,
                   dest, dest_weight,
                   IF fee_reserve = None THEN None ELSE MinXcmFee(Unwrap(fee_reserve)))

\* The branch taken when fee_reserve != non_fee_reserve.
SplitLegs(ctx, origin_location, assets, fee, fee_reserve, non_fee_reserve, dest, dest_weight) ==
    IF non_fee_reserve # chain_part(dest) THEN Err("InvalidAsset", ctx)
    ELSE IF non_fee_reserve = None THEN Err("AssetHasNoReserve", ctx)
    ELSE SplitWith(ctx, origin_location, assets, fee, fee_reserve, non_fee_reserve,
                   dest, dest_weight, MinXcmFee(Unwrap(non_fee_reserve)))

DepositEvent(sent, event) ==
    IF sent.res # "Ok" THEN sent
    ELSE Ok([sent.ctx EXCEPT !.events = Append(@, event)])

Route(ctx, who, assets, fee, dest, dest_weight, override_recipient, loop) ==
    IF loop.res # "Ok" THEN Err(loop.res, ctx)
    ELSE DepositEvent(
             IF reserve(fee) # loop.non_fee_reserve
             THEN SplitLegs(ctx, AccountIdToMultiLocation(who), assets, fee,
                            reserve(fee), loop.non_fee_reserve, dest, dest_weight)
             ELSE execute_and_send_reserve_kind_xcm(
                      ctx, AccountIdToMultiLocation(who), assets, fee,
                      loop.non_fee_reserve, dest, override_recipient, dest_weight),
             TransferredMultiAssets(who, assets, fee, dest))

\* A do_transfer_multiassets without the bound on the bundle.
do_transfer_multiassets_unbounded(ctx, who, assets, fee, dest, dest_weight, override_recipient) ==
    IF ~MultiLocationsFilter(dest) THEN Err("NotSupportedMultiLocation", ctx)
    ELSE Route(ctx, who, assets, fee, dest, dest_weight, override_recipient,
               ReserveLoop(assets, fee, 1, None))

do_transfer_multiassets(ctx, who, assets, fee, dest, dest_weight, override_recipient) ==
    IF Len(assets) > MaxAssetsForTransfer THEN Err("TooManyAssetsBeingSent", ctx)
    ELSE IF ~MultiLocationsFilter(dest) THEN Err("NotSupportedMultiLocation", ctx)
    ELSE Route(ctx, who, assets, fee, dest, dest_weight, override_recipient,
               ReserveLoop(assets, fee, 1, None))

\* ------------------------------------------------------------------------
\* The bodies of the entry points
\* ------------------------------------------------------------------------

\* The request an entry point hands to do_transfer_multiassets, or the
\* error it returns before.
Request(assets, fee, dest, override_recipient) ==
    [res |-> "Ok", assets |-> assets, fee |-> fee, dest |-> dest,
     override_recipient |-> override_recipient]

Reject(e) == [res |-> e]

TransferRequest(location, amount, dest) ==
    IF location = None THEN Reject("NotCrossChainTransferableCurrency")
    ELSE IF amount = 0 THEN Reject("ZeroAmount")
    ELSE IF ~MultiLocationsFilter(dest) THEN Reject("NotSupportedMultiLocation")
    ELSE Request(<<Asset(Unwrap(location), amount)>>, Asset(Unwrap(location), amount),
                 dest, None)

TransferWithFeeRequest(location, amount, fee, dest) ==
    IF location = None THEN Reject("NotCrossChainTransferableCurrency")
    ELSE IF amount = 0 THEN Reject("ZeroAmount")
    ELSE IF fee = 0 THEN Reject("ZeroFee")
    ELSE IF ~MultiLocationsFilter(dest) THEN Reject("NotSupportedMultiLocation")
    ELSE Request(push(push(<<>>, Asset(Unwrap(location), amount)),
                      Asset(Unwrap(location), fee)),
                 Asset(Unwrap(location), fee), dest, None)

\* The loop converting the currencies, from index i (1-based) with the
\* bundle built so far.
RECURSIVE CurrenciesLoop(_, _, _)
CurrenciesLoop(currencies, i, assets) ==
    IF i > Len(currencies) THEN [res |-> "Ok", assets |-> assets]
    ELSE IF CurrencyIdConvert(currencies[i][1]) = None
    THEN [res |-> "NotCrossChainTransferableCurrency"]
    ELSE IF currencies[i][2] = 0 THEN [res |-> "ZeroAmount"]
    ELSE CurrenciesLoop(currencies, i + 1,
                        push(assets, Asset(Unwrap(CurrencyIdConvert(currencies[i][1])),
                                           currencies[i][2])))

MultiCurrenciesFee(loop, fee_currency, dest) ==
    IF loop.res # "Ok" THEN Reject(loop.res)
    ELSE IF CurrencyIdConvert(fee_currency[1]) = None
    THEN Reject("NotCrossChainTransferableCurrency")
    ELSE Request(loop.assets,
                 Asset(Unwrap(CurrencyIdConvert(fee_currency[1])), fee_currency[2]),
                 dest, None)

MultiCurrenciesRequest(currencies, fee_item, dest) ==
    IF Len(currencies) > MaxAssetsForTransfer THEN Reject("TooManyAssetsBeingSent")
    ELSE IF ~MultiLocationsFilter(dest) THEN Reject("NotSupportedMultiLocation")
    ELSE IF get(currencies, fee_item) = None THEN Reject("AssetIndexNonExistent")
    ELSE MultiCurrenciesFee(CurrenciesLoop(currencies, 1, <<>>),
                            Unwrap(get(currencies, fee_item)), dest)

MultiAssetsRequest(assets, fee_item, dest) ==
    IF get(assets, fee_item) = None THEN Reject("AssetIndexNonExistent")
    ELSE Request(assets, Unwrap(get(assets, fee_item)), dest, None)

\* The destination of transfer_with_transact: the chain, with the sender's
\* interior appended to pass the filter and the check of the recipient part.
TransactDest(who, dest_chain_id) ==
    append_with(Loc(1, <<Parachain(dest_chain_id)>>),
                AccountIdToMultiLocation(who).interior)

TransferWithTransactRequest(who, location, amount, dest_chain_id) ==
    IF amount = 0 THEN Reject("ZeroAmount")
    ELSE IF ~MultiLocationsFilter(TransactDest(who, dest_chain_id))
    THEN Reject("NotSupportedMultiLocation")
    ELSE IF location = None THEN Reject("NotCrossChainTransferableCurrency")
    ELSE Request(<<Asset(Unwrap(location), amount)>>, Asset(Unwrap(location), amount),
                 TransactDest(who, dest_chain_id),
                 Some(append_with(SelfLocation, AccountIdToMultiLocation(who).interior)))

\* The Transact program.
TransactInstructions(origin_location_interior, transact_fee_asset, dest_weight, encoded_call_data, refund_recipient) ==
    <<[op |-> "DescendOrigin", interior |-> origin_location_interior],
      [op |-> "WithdrawAsset", assets |-> push(<<>>, transact_fee_asset)],
      [op |-> "BuyExecution", fees |-> transact_fee_asset, weight_limit |-> dest_weight],
      [op |-> "Transact", origin_type |-> "SovereignAccount",
       require_weight_at_most |-> dest_weight, call |-> encoded_call_data],
      [op |-> "RefundSurplus"],
      [op |-> "DepositAsset", assets |-> "All",
       max_assets |-> Len(push(<<>>, transact_fee_asset)),
       beneficiary |-> refund_recipient]>>

SendTransact(ctx, fee_opt, dest_chain_location, origin_location_interior, dest_weight, encoded_call_data, refund_recipient, sendOk) ==
    IF fee_opt = None THEN Err("CannotReanchor", ctx)
    ELSE send_xcm(ctx, dest_chain_location,
                  TransactInstructions(origin_location_interior, Unwrap(fee_opt),
                                       dest_weight, encoded_call_data, refund_recipient),
                  sendOk)

send_transact(ctx, transact_fee_location, transact_fee_amount, dest_chain_location, origin_location_interior, dest_weight, encoded_call_data, refund_recipient, sendOk) ==
    SendTransact(ctx,
                 reanchored(Asset(transact_fee_location, transact_fee_amount),
                            dest_chain_location, Ancestry),
                 dest_chain_location, origin_location_interior, dest_weight,
                 encoded_call_data, refund_recipient, sendOk)

do_transact(ctx, who, transact_currency_id, transact_fee_amount, dest_chain_id, dest_weight, encoded_call_data, sendOk) ==
    IF CurrencyIdConvert(transact_currency_id) = None
    THEN Err("NotCrossChainTransferableCurrency", ctx)
    ELSE send_transact(ctx, Unwrap(CurrencyIdConvert(transact_currency_id)),
                       transact_fee_amount, Loc(1, <<Parachain(dest_chain_id)>>),
                       AccountIdToMultiLocation(who).interior, dest_weight,
                       encoded_call_data, SelfLocation, sendOk)

\* A second half that sends the Transact program whatever the transfer
\* returned.
ThenTransact_regardless(transferred, who, location, dest_chain_location, dest_weight, encoded_call_data, transact_fee_amount, sendOk) ==
    send_transact(transferred.ctx, location, transact_fee_amount,
                  Unwrap(chain_part(dest_chain_location)),
                  AccountIdToMultiLocation(who).interior, dest_weight,
                  encoded_call_data,
                  append_with(SelfLocation, AccountIdToMultiLocation(who).interior),
                  sendOk)

\* The second half of do_transfer_with_transact, once the transfer is done.
ThenTransact(transferred, who, location, dest_chain_location, dest_weight, encoded_call_data, transact_fee_amount, sendOk) ==
    IF transferred.res # "Ok" THEN transferred
    ELSE IF chain_part(dest_chain_location) = None
    THEN Err("InvalidDest", transferred.ctx)
    ELSE send_transact(transferred.ctx, location, transact_fee_amount,
                       Unwrap(chain_part(dest_chain_location)),
                       AccountIdToMultiLocation(who).interior, dest_weight,
                       encoded_call_data,
                       append_with(SelfLocation, AccountIdToMultiLocation(who).interior),
                       sendOk)

\* A request runs through do_transfer_multiassets and, for
\* transfer_with_transact (transact_fee # None), through send_transact.
Run(ctx, who, req, dest_weight, transact_fee, encoded_call_data, sendOk) ==
    IF req.res # "Ok" THEN Err(req.res, ctx)
    ELSE IF transact_fee = None
    THEN do_transfer_multiassets(ctx, who, req.assets, req.fee, req.dest, dest_weight,
                                 req.override_recipient)
    ELSE ThenTransact(
             do_transfer_multiassets(ctx, who, req.assets, req.fee, req.dest,
                                     dest_weight, req.override_recipient),
             who, req.fee.id, req.dest, dest_weight, encoded_call_data,
             Unwrap(transact_fee), sendOk)

do_transfer(ctx, who, currency_id, amount, dest, dest_weight) ==
    Run(ctx, who, TransferRequest(CurrencyIdConvert(currency_id), amount, dest),
        dest_weight, None, <<>>, FALSE)

do_transfer_with_fee(ctx, who, currency_id, amount, fee, dest, dest_weight) ==
    Run(ctx, who, TransferWithFeeRequest(CurrencyIdConvert(currency_id), amount, fee, dest),
        dest_weight, None, <<>>, FALSE)

do_transfer_multiasset(ctx, who, asset, dest, dest_weight) ==
    Run(ctx, who, Request(<<asset>>, asset, dest, None), dest_weight, None, <<>>, FALSE)

do_transfer_multiasset_with_fee(ctx, who, asset, fee, dest, dest_weight) ==
    Run(ctx, who, Request(push(push(<<>>, asset), fee), fee, dest, None),
        dest_weight, None, <<>>, FALSE)

do_transfer_multicurrencies(ctx, who, currencies, fee_item, dest, dest_weight) ==
    Run(ctx, who, MultiCurrenciesRequest(currencies, fee_item, dest),
        dest_weight, None, <<>>, FALSE)

do_transfer_with_transact(ctx, who, currency_id, amount, dest_chain_id, dest_weight, encoded_call_data, transact_fee_amount, sendOk) ==
    Run(ctx, who,
        TransferWithTransactRequest(who, CurrencyIdConvert(currency_id), amount,
                                    dest_chain_id),
        dest_weight, Some(transact_fee_amount), encoded_call_data, sendOk)

\* A boundary that keeps what the body did whatever it returns.
transactional_keep(pre, out) == out.ctx

\* #[transactional]: the storage changes of a body that returns an error
\* are discarded.
transactional(pre, out) == IF out.res = "Ok" THEN out.ctx ELSE pre

\* ------------------------------------------------------------------------
\* State
\* ------------------------------------------------------------------------

\* balances: the sender's balance per asset id (the balance engine);
\* queue:    the outbound messages of the current block;
\* events:   the events deposited in the current block;
\* last:     the dispatch that ran in the current block (call = "none"
\*           before it): its arguments, its result and the programs it
\*           handed to the executor and the transport.
VARIABLES balances, queue, events, last

vars == <<balances, queue, events, last>>

NoDispatch == [call |-> "none", args |-> <<>>, res |-> "none", trace |-> <<>>]

\* The signed origin of every request, and the account it names as recipient.
Alice == 1

Bob == 2

\* ------------------------------------------------------------------------
\* Inputs
\* ------------------------------------------------------------------------

Amounts == 0..MaxAmount

DestSibling == Loc(1, <<Parachain(3000), AccountId32(Bob)>>)

DestSelf == Loc(1, <<Parachain(SelfParaId), AccountId32(Bob)>>)

DestHub == Loc(1, <<AccountId32(Bob)>>)

DestNoChain == Loc(0, <<AccountId32(Bob)>>)

DestBlocked == Loc(1, <<Parachain(BlockedParaId), AccountId32(Bob)>>)

Dests == {DestSibling, DestSelf, DestHub, DestNoChain, DestBlocked}

DestChainIds == {SelfParaId, 3000, BlockedParaId}

DestWeights == {1000}

EncodedCalls == {<<171>>}

\* Single assets: the hub and sibling assets with every amount, the self
\* asset with the amounts 1 and MaxAmount, the no-reserve asset with amount
\* 1, and one non-fungible.
InputAssets ==
    {Asset(id, n) : id \in {HubId, SiblingId}, n \in Amounts}
    \cup {Asset(SelfId, 1), Asset(SelfId, MaxAmount), Asset(NoReserveId, 1),
          NonFungibleAsset(SelfId, 1)}

\* Bundles as decoded from the wire (sorted, one entry per id): the hub and
\* sibling assets with every amount, the self and no-reserve assets with
\* amount 1, the self asset also as a non-fungible. -1 leaves the id out.
IdOrder == <<NoReserveId, HubId, SelfId, SiblingId>>

BundleShapes ==
    {<<n, h, s, d>> : n \in {-1, 1}, h \in {-1} \cup Amounts, s \in {-1, 1, -2},
                      d \in {-1} \cup Amounts}

RECURSIVE BundleOf(_, _)
BundleOf(shape, i) ==
    IF i > Len(shape) THEN <<>>
    ELSE (IF shape[i] = -1 THEN <<>>
          ELSE IF shape[i] = -2 THEN <<NonFungibleAsset(IdOrder[i], 1)>>
          ELSE <<Asset(IdOrder[i], shape[i])>>) \o BundleOf(shape, i + 1)

InputBundles == {BundleOf(sh, 1) : sh \in BundleShapes}

\* Currency lists: every list of at most two entries (the hub currency with
\* every amount, the others with amount 1), the lists of three entries over
\* three of them, and the list of one more entry than MaxAssetsForTransfer
\* over one.
CurrencyItems ==
    {<<"HUB", n>> : n \in Amounts}
    \cup {<<c, 1>> : c \in {"NORES", "SELF", "SIBLING", "BAD"}}

LongItems == {<<"NORES", 1>>, <<"HUB", 1>>, <<"SIBLING", 1>>}

OverItems == {<<"HUB", 1>>}

InputCurrencies ==
    UNION {[1..n -> CurrencyItems] : n \in 0..2}
    \cup [1..3 -> LongItems]
    \cup [1..(MaxAssetsForTransfer + 1) -> OverItems]

\* ------------------------------------------------------------------------
\* Specification
\* ------------------------------------------------------------------------

Init ==
    /\ balances = [id \in AssetIds |->
                      IF id = HubId THEN InitBalance ELSE InitBalance - 1]
    /\ queue = <<>>
    /\ events = <<>>
    /\ last = NoDispatch

Ctx0 == [bal |-> balances, queue |-> queue, events |-> events, trace |-> <<>>]

\* One dispatch: the body runs on the storage, the transactional boundary
\* keeps or discards what it did, and the result is reported.
Commit(call, args, out, fin) ==
    /\ balances' = fin.bal
    /\ queue' = fin.queue
    /\ events' = fin.events
    /\ last' = [call |-> call, args |-> args, res |-> out.res,
                trace |-> out.ctx.trace]

Dispatched(call, args, out) == Commit(call, args, out, transactional(Ctx0, out))

Dispatch(call, args, out) ==
    /\ last.call = "none"
    /\ Dispatched(call, args, out)

transfer ==
    \E c \in CurrencyIds, a \in Amounts, d \in Dests, w \in DestWeights :
        Dispatch("transfer", [currency_id |-> c, amount |-> a, dest |-> d],
                 do_transfer(Ctx0, Alice, c, a, d, w))

transfer_multiasset ==
    \E a \in InputAssets, d \in Dests, w \in DestWeights :
        Dispatch("transfer_multiasset", [asset |-> a, dest |-> d],
                 do_transfer_multiasset(Ctx0, Alice, a, d, w))

transfer_with_fee ==
    \E c \in CurrencyIds, a \in Amounts, f \in Amounts, d \in Dests, w \in DestWeights :
        Dispatch("transfer_with_fee",
                 [currency_id |-> c, amount |-> a, fee |-> f, dest |-> d],
                 do_transfer_with_fee(Ctx0, Alice, c, a, f, d, w))

transfer_multiasset_with_fee ==
    \E a \in InputAssets, f \in InputAssets, d \in Dests, w \in DestWeights :
        Dispatch("transfer_multiasset_with_fee", [asset |-> a, fee |-> f, dest |-> d],
                 do_transfer_multiasset_with_fee(Ctx0, Alice, a, f, d, w))

transfer_multicurrencies ==
    \E cs \in InputCurrencies, d \in Dests, w \in DestWeights :
        \E i \in 0..Len(cs) :
            Dispatch("transfer_multicurrencies",
                     [currencies |-> cs, fee_item |-> i, dest |-> d],
                     do_transfer_multicurrencies(Ctx0, Alice, cs, i, d, w))

transfer_multiassets ==
    \E as \in InputBundles, d \in Dests, w \in DestWeights :
        \E i \in 0..Len(as) :
            Dispatch("transfer_multiassets", [assets |-> as, fee_item |-> i, dest |-> d],
                     Run(Ctx0, Alice, MultiAssetsRequest(as, i, d), w, None, <<>>, FALSE))

transact ==
    \E c \in CurrencyIds, id \in DestChainIds, f \in Amounts, call \in EncodedCalls,
       w \in DestWeights, sendOk \in BOOLEAN :
        Dispatch("transact",
                 [currency_id |-> c, dest_id |-> id, transact_fee |-> f,
                  sendOk |-> sendOk],
                 IF MaxTransactSize > 256 THEN Err("TransactTooLarge", Ctx0)
                 ELSE do_transact(Ctx0, Alice, c, f, id, w, call, sendOk))

transfer_with_transact ==
    \E c \in CurrencyIds, a \in Amounts, id \in DestChainIds, f \in Amounts,
       call \in EncodedCalls, w \in DestWeights, sendOk \in BOOLEAN :
        Dispatch("transfer_with_transact",
                 [currency_id |-> c, amount |-> a, dest_chain_id |-> id,
                  transact_fee |-> f, sendOk |-> sendOk],
                 IF MaxTransactSize > 256 THEN Err("TransactTooLarge", Ctx0)
                 ELSE do_transfer_with_transact(Ctx0, Alice, c, a, id, w, call, f, sendOk))

\* The block ends: its outbound messages are handed to the network, its
\* events are archived and the next request can be dispatched.
NextBlock ==
    /\ last.call # "none"
    /\ queue' = <<>>
    /\ events' = <<>>
    /\ last' = NoDispatch
    /\ UNCHANGED balances

Next ==
    \/ transfer
    \/ transfer_multiasset
    \/ transfer_with_fee
    \/ transfer_multiasset_with_fee
    \/ transfer_multicurrencies
    \/ transfer_multiassets
    \/ transact
    \/ transfer_with_transact
    \/ NextBlock

Spec == Init /\ [][Next]_vars

\* ------------------------------------------------------------------------
\* What a dispatch was asked to do, read from its arguments
\* ------------------------------------------------------------------------

\* The entry points that move assets.
TransferCalls ==
    {"transfer", "transfer_multiasset", "transfer_with_fee",
     "transfer_multiasset_with_fee", "transfer_multicurrencies",
     "transfer_multiassets", "transfer_with_transact"}

CommittedTransfer == last.call \in TransferCalls /\ last.res = "Ok"

\* The asset a (currency, amount) pair names.
AssetOf(c, n) == Asset(Unwrap(CurrencyIdConvert(c)), n)

\* A list of assets in canonical form: sorted, one fungible entry per id.
RECURSIVE Canonical(_, _)
Canonical(list, acc) ==
    IF list = <<>> THEN acc ELSE Canonical(Tail(list), push(acc, list[1]))

\* The bundle, the fee and the destination of the dispatch d as received.
InputList(d) ==
    CASE d.call \in {"transfer", "transfer_with_transact"} ->
            <<AssetOf(d.args.currency_id, d.args.amount)>>
      [] d.call = "transfer_with_fee" ->
            <<AssetOf(d.args.currency_id, d.args.amount),
              AssetOf(d.args.currency_id, d.args.fee)>>
      [] d.call = "transfer_multiasset" -> <<d.args.asset>>
      [] d.call = "transfer_multiasset_with_fee" -> <<d.args.asset, d.args.fee>>
      [] d.call = "transfer_multicurrencies" ->
            [i \in 1..Len(d.args.currencies) |->
                AssetOf(d.args.currencies[i][1], d.args.currencies[i][2])]
      [] d.call = "transfer_multiassets" -> d.args.assets
      [] OTHER -> <<>>

InputBundle(d) == Canonical(InputList(d), <<>>)

InputFee(d) ==
    CASE d.call \in {"transfer", "transfer_with_transact"} ->
            AssetOf(d.args.currency_id, d.args.amount)
      [] d.call = "transfer_with_fee" -> AssetOf(d.args.currency_id, d.args.fee)
      [] d.call = "transfer_multiasset" -> d.args.asset
      [] d.call = "transfer_multiasset_with_fee" -> d.args.fee
      [] d.call = "transfer_multicurrencies" ->
            AssetOf(d.args.currencies[d.args.fee_item + 1][1],
                    d.args.currencies[d.args.fee_item + 1][2])
      [] d.call = "transfer_multiassets" -> d.args.assets[d.args.fee_item + 1]

InputDest(d) ==
    CASE d.call = "transact" -> Loc(1, <<Parachain(d.args.dest_id)>>)
      [] d.call = "transfer_with_transact" -> Loc(1, <<Parachain(d.args.dest_chain_id)>>)
      [] OTHER -> d.args.dest

\* The amount of the asset id in a list of assets.
RECURSIVE Total(_, _)
Total(list, id) ==
    IF list = <<>> THEN 0
    ELSE (IF list[1].id = id THEN list[1].amount ELSE 0) + Total(Tail(list), id)

\* The programs of a trace that the executor ran.
Executed(trace) == SelectSeq(trace, LAMBDA st : st.via = "executor")

\* The amount of the asset id the executed programs of a trace withdrew.
RECURSIVE TraceWithdrawn(_, _)
TraceWithdrawn(trace, id) ==
    IF trace = <<>> THEN 0
    ELSE (IF trace[1].via = "executor" /\ trace[1].ok
          THEN Total(Withdrawn(trace[1].program), id) ELSE 0)
         + TraceWithdrawn(Tail(trace), id)

\* ------------------------------------------------------------------------
\* Properties
\* ------------------------------------------------------------------------

\* C1: a dispatch of any entry point that returns an error leaves the state
\* as it was before: no balance changed, no outbound message queued, no
\* event recorded; also when leg A of a split transfer had executed before
\* leg B failed, and when the transfer of transfer_with_transact had
\* succeeded before the send of the transact failed.
C1_ErrorRollsBack ==
    [][(last'.call # "none" /\ last'.res # "Ok")
          => (balances' = balances /\ queue' = queue /\ events' = events)]_vars

\* Leg A executed, leg B failed, and the dispatch returned the error.
C1_Witness ==
    /\ last.call = "transfer_multiassets"
    /\ last.res = "XcmExecutionFailed"
    /\ Len(last.trace) = 2
    /\ last.trace[1].ok
    /\ ~last.trace[2].ok
    /\ queue = <<>>
    /\ events = <<>>

\* C2: for every transfer that commits, the amount withdrawn from the sender
\* by the executed programs equals, per asset id, the amounts of that id in
\* the input bundle, fee included; in the split case leg A carries
\* fee.amount - min_xcm_fee, the fee slot of leg B carries min_xcm_fee, and
\* every other asset is withdrawn once.
C2_WithdrawnIsInput ==
    [][(last'.call \in TransferCalls /\ last'.res = "Ok")
          => /\ \A id \in AssetIds :
                  /\ balances[id] - balances'[id] = Total(InputList(last'), id)
                  /\ TraceWithdrawn(last'.trace, id) = Total(InputList(last'), id)
             /\ Len(Executed(last'.trace)) = 2
                  => /\ Len(Withdrawn(last'.trace[1].program)) = 1
                     /\ Total(Withdrawn(last'.trace[1].program), InputFee(last').id)
                          + Total(Withdrawn(last'.trace[2].program), InputFee(last').id)
                        = InputFee(last').amount]_vars

\* A split transfer committed: both legs withdrew a part of the fee.
C2_Witness ==
    /\ CommittedTransfer
    /\ Len(Executed(last.trace)) = 2
    /\ Total(Withdrawn(last.trace[1].program), InputFee(last).id) > 0
    /\ Total(Withdrawn(last.trace[2].program), InputFee(last).id) > 0

\* C3: every transfer dispatch that succeeds records exactly one
\* TransferredMultiAssets event, after every leg has executed; its assets
\* and fee are the input bundle (in canonical form) and the input fee, not
\* the bundles of leg A or leg B and not a halved fee, and its dest is the
\* input destination (for transfer_with_transact, whose input names the
\* chain only, the destination on that chain). A dispatch that does not
\* succeed records none.
C3_OneEventOfInput ==
    /\ CommittedTransfer
          => /\ Len(events) = 1
             /\ events[1].sender = Alice
             /\ events[1].assets = InputBundle(last)
             /\ events[1].fee = InputFee(last)
             /\ IF last.call = "transfer_with_transact"
                THEN chain_part(events[1].dest) = Some(InputDest(last))
                ELSE events[1].dest = InputDest(last)
             /\ Len(Executed(last.trace)) >= 1
             /\ \A i \in 1..Len(last.trace) : last.trace[i].ok
    /\ ~CommittedTransfer => events = <<>>

\* A split transfer through a non-reserve chain committed: the event names
\* the input bundle and fee, which neither leg carries.
C3_Witness ==
    /\ CommittedTransfer
    /\ Len(Executed(last.trace)) = 2
    /\ Len(events) = 1
    /\ events[1].assets # Withdrawn(last.trace[1].program)
    /\ events[1].assets # Withdrawn(last.trace[2].program)
    /\ events[1].fee # last.trace[2].program[2].xcm[1].fees

\* The reserves of the assets of the bundle other than the fee.
NonFeeReserves(d) ==
    {reserve(InputBundle(d)[i]) :
        i \in {k \in 1..Len(InputBundle(d)) : InputBundle(d)[k] # InputFee(d)}}

\* C4: for every transfer that commits, the number of programs executed
\* locally, each queued as one outbound message, is 1 when the reserve of the
\* fee is the reserve of the other assets of the bundle (or the fee is the
\* whole bundle) and 2 when it differs from it; never 0, never more than 2.
C4_OneOrTwoPrograms ==
    CommittedTransfer
        => /\ Len(Executed(last.trace)) \in {1, 2}
           /\ Len(SelectSeq(queue, LAMBDA m : m.program[1].op # "DescendOrigin"))
                = Len(Executed(last.trace))
           /\ NonFeeReserves(last) \subseteq {reserve(InputFee(last))}
                => Len(Executed(last.trace)) = 1
           /\ (\E r \in NonFeeReserves(last) :
                   NonFeeReserves(last) = {r} /\ r # reserve(InputFee(last)))
                => Len(Executed(last.trace)) = 2

\* A list of currencies committed as a split transfer: two programs queued.
C4_Witness ==
    /\ last.call = "transfer_multicurrencies"
    /\ last.res = "Ok"
    /\ Len(queue) = 2
    /\ NonFeeReserves(last) = {Some(Sibling)}
    /\ reserve(InputFee(last)) = Some(Parent)

\* Some program of the dispatch was executed locally or accepted by the
\* transport.
SomeProgramRan == \E i \in 1..Len(last.trace) : last.trace[i].ok

\* C5: in every transfer that commits, the assets of the bundle other than
\* the fee all have a reserve, and the same one, whatever their position in
\* the canonical order of the bundle.
C5_NonFeeAssetsShareReserve ==
    CommittedTransfer
        => /\ None \notin NonFeeReserves(last)
           /\ Cardinality(NonFeeReserves(last)) <= 1

\* C6: no dispatch of any entry point, transact and transfer_with_transact
\* included, executes a program locally or hands one to the transport when
\* the chain part of its destination is absent or is self_location.
C6_NoCommitWithoutRemoteChain ==
    (last.call # "none"
        /\ chain_part(InputDest(last)) \in {None, Some(SelfLocation)})
        => (last.res # "Ok" /\ ~SomeProgramRan)

\* C7: the destination filter is applied to every request of every entry
\* point, transact included: when it rejects the destination the dispatch
\* fails and no program is executed locally or sent.
C7_FilterOnEveryRequest ==
    (last.call # "none"
        /\ ~MultiLocationsFilter(
               IF last.call = "transfer_with_transact"
               THEN TransactDest(Alice, last.args.dest_chain_id)
               ELSE InputDest(last)))
        => (last.res # "Ok" /\ ~SomeProgramRan)

\* C8: no transfer commits whose designated fee asset has amount 0, also
\* when the fee has the id of the transferred asset and is merged into it.
C8_NoZeroFee ==
    CommittedTransfer => (InputFee(last).fungible /\ InputFee(last).amount > 0)

\* C9: every transfer that commits has a bundle that is non-empty, has at
\* most MaxAssetsForTransfer entries and holds only fungible assets of
\* amount > 0. A request with more entries than the bound never commits and
\* fails with TooManyAssetsBeingSent; a fee_item that designates no entry
\* (any index on an empty bundle included) never commits and fails with
\* AssetIndexNonExistent. When a request has several of these defects the
\* first check of its entry point names the error: transfer_multiassets
\* reads the fee before the bound, transfer_multicurrencies checks the bound
\* and the filter before it reads the fee.
C9_BundleWellFormed ==
    /\ CommittedTransfer
          => /\ Len(InputBundle(last)) \in 1..MaxAssetsForTransfer
             /\ \A i \in 1..Len(InputBundle(last)) :
                    InputBundle(last)[i].fungible /\ InputBundle(last)[i].amount > 0
    /\ last.call = "transfer_multicurrencies"
          => /\ Len(last.args.currencies) > MaxAssetsForTransfer
                  => last.res = "TooManyAssetsBeingSent"
             /\ (/\ last.args.fee_item >= Len(last.args.currencies)
                 /\ Len(last.args.currencies) <= MaxAssetsForTransfer
                 /\ MultiLocationsFilter(last.args.dest))
                  => last.res = "AssetIndexNonExistent"
             /\ last.args.fee_item >= Len(last.args.currencies) => last.res # "Ok"
    /\ last.call = "transfer_multiassets"
          => /\ last.args.fee_item >= Len(last.args.assets)
                  => last.res = "AssetIndexNonExistent"
             /\ (/\ Len(last.args.assets) > MaxAssetsForTransfer
                 /\ last.args.fee_item < Len(last.args.assets))
                  => last.res = "TooManyAssetsBeingSent"

\* A bundle of one entry more than the bound, with a fee_item that
\* designates one of them, was rejected.
C9_Witness ==
    /\ last.call = "transfer_multiassets"
    /\ Len(last.args.assets) = MaxAssetsForTransfer + 1
    /\ last.args.fee_item < Len(last.args.assets)
    /\ last.res = "TooManyAssetsBeingSent"
    /\ last.trace = <<>>

\* The request the dispatch d hands to do_transfer_multiassets.
RequestOf(d) ==
    CASE d.call = "transfer" ->
            TransferRequest(CurrencyIdConvert(d.args.currency_id), d.args.amount,
                            d.args.dest)
      [] d.call = "transfer_with_fee" ->
            TransferWithFeeRequest(CurrencyIdConvert(d.args.currency_id),
                                   d.args.amount, d.args.fee, d.args.dest)
      [] d.call = "transfer_multiasset" ->
            Request(<<d.args.asset>>, d.args.asset, d.args.dest, None)
      [] d.call = "transfer_multiasset_with_fee" ->
            Request(push(push(<<>>, d.args.asset), d.args.fee), d.args.fee,
                    d.args.dest, None)
      [] d.call = "transfer_multicurrencies" ->
            MultiCurrenciesRequest(d.args.currencies, d.args.fee_item, d.args.dest)
      [] d.call = "transfer_multiassets" ->
            MultiAssetsRequest(d.args.assets, d.args.fee_item, d.args.dest)
      [] d.call = "transfer_with_transact" ->
            TransferWithTransactRequest(Alice, CurrencyIdConvert(d.args.currency_id),
                                        d.args.amount, d.args.dest_chain_id)
      [] OTHER -> Reject("none")

\* The request r passes the validation of do_transfer_multiassets and takes
\* the split branch up to the comparison of the fee with the minimum.
ReachesFeeComparison(r, loop) ==
    /\ Len(r.assets) <= MaxAssetsForTransfer
    /\ MultiLocationsFilter(r.dest)
    /\ loop.res = "Ok"
    /\ reserve(r.fee) # loop.non_fee_reserve
    /\ loop.non_fee_reserve = chain_part(r.dest)
    /\ loop.non_fee_reserve # None
    /\ MinXcmFee(Unwrap(loop.non_fee_reserve)) # None

SplitRouting(d) ==
    /\ RequestOf(d).res = "Ok"
    /\ ReachesFeeComparison(RequestOf(d),
                            ReserveLoop(RequestOf(d).assets, RequestOf(d).fee, 1, None))

\* The minimum fee of the split routing of d.
SplitMinXcmFee(d) == Unwrap(MinXcmFee(Unwrap(chain_part(RequestOf(d).dest))))

\* C10: in split routing the split proceeds only when min_xcm_fee is
\* strictly below fee.amount; when min_xcm_fee >= fee.amount, equality
\* included, the dispatch fails with FeeNotEnough, no program runs and the
\* state does not change. So subtract_fee never goes below zero and leg A
\* carries fee.amount - min_xcm_fee > 0.
C10_SplitOnlyAboveMinFee ==
    [][(last'.call \in TransferCalls /\ SplitRouting(last'))
          => IF SplitMinXcmFee(last') >= RequestOf(last').fee.amount
             THEN /\ last'.res = "FeeNotEnough"
                  /\ last'.trace = <<>>
                  /\ balances' = balances /\ queue' = queue /\ events' = events
             ELSE /\ last'.res # "FeeNotEnough"
                  /\ Len(last'.trace) >= 1
                  /\ Withdrawn(last'.trace[1].program)
                        = <<Asset(RequestOf(last').fee.id,
                                  RequestOf(last').fee.amount - SplitMinXcmFee(last'))>>
                  /\ Withdrawn(last'.trace[1].program)[1].amount > 0]_vars

\* A split whose fee equals the minimum was refused.
C10_Witness ==
    /\ last.call \in TransferCalls
    /\ SplitRouting(last)
    /\ SplitMinXcmFee(last) = RequestOf(last).fee.amount
    /\ last.res = "FeeNotEnough"

\* The request of the dispatch d passed the checks of its entry point, the
\* bound, the filter and the loop over the bundle, and the reserve of its
\* fee differs from the non-fee reserve the loop found.
CrossReserve(d) ==
    /\ d.call \in TransferCalls
    /\ RequestOf(d).res = "Ok"
    /\ Len(RequestOf(d).assets) <= MaxAssetsForTransfer
    /\ MultiLocationsFilter(RequestOf(d).dest)
    /\ ReserveLoop(RequestOf(d).assets, RequestOf(d).fee, 1, None).res = "Ok"
    /\ reserve(RequestOf(d).fee)
         # ReserveLoop(RequestOf(d).assets, RequestOf(d).fee, 1, None).non_fee_reserve

\* C11: a request whose fee reserve differs from the non-fee reserve commits
\* only if the non-fee reserve is the chain part of the destination; in
\* every other cross-reserve combination the dispatch returns an error
\* before any program is executed.
C11_CrossReserveOnlyToDest ==
    /\ (CrossReserve(last)
          /\ ReserveLoop(RequestOf(last).assets, RequestOf(last).fee, 1,
                         None).non_fee_reserve
               # chain_part(RequestOf(last).dest))
          => (last.res = "InvalidAsset" /\ last.trace = <<>>)
    /\ (CommittedTransfer
          /\ \E r \in NonFeeReserves(last) :
                 NonFeeReserves(last) = {r} /\ r # reserve(InputFee(last)))
          => NonFeeReserves(last) = {chain_part(InputDest(last))}
    /\ (last.call \in TransferCalls
          /\ RequestOf(last).res = "Ok"
          /\ \E r \in NonFeeReserves(last) :
                 /\ NonFeeReserves(last) = {r}
                 /\ r # reserve(InputFee(last))
                 /\ r # chain_part(InputDest(last)))
          => last.trace = <<>>

\* The fee has the hub as reserve, the other asset a sibling, and the
\* destination is on the hub: rejected, nothing executed.
C11_Witness ==
    /\ CrossReserve(last)
    /\ reserve(RequestOf(last).fee) = Some(Parent)
    /\ NonFeeReserves(last) = {Some(Sibling)}
    /\ chain_part(RequestOf(last).dest) = Some(Parent)
    /\ last.res = "InvalidAsset"
    /\ last.trace = <<>>

\* The dispatch d is a split request whose fee is above the minimum: the
\* legs are built and handed to the executor.
SplitProceeds(d) ==
    /\ d.call \in TransferCalls
    /\ SplitRouting(d)
    /\ SplitMinXcmFee(d) < RequestOf(d).fee.amount

\* The program carries the fee asset alone, less the minimum: leg A.
IsLegA(d, program) ==
    Withdrawn(program)
        = <<Asset(RequestOf(d).fee.id, RequestOf(d).fee.amount - SplitMinXcmFee(d))>>

\* The program carries every asset of the bundle other than the fee, and
\* the minimum of the fee asset: leg B.
IsLegB(d, program) ==
    /\ \A i \in 1..Len(RequestOf(d).assets) :
          RequestOf(d).assets[i] # RequestOf(d).fee
              => \E k \in 1..Len(Withdrawn(program)) :
                     Withdrawn(program)[k] = RequestOf(d).assets[i]
    /\ Total(Withdrawn(program), RequestOf(d).fee.id) = SplitMinXcmFee(d)

\* C12: within one split request leg A is weighed and executed before leg
\* B; leg B is not executed unless leg A completed, and the outbound message
\* of leg B never precedes that of leg A.
C12_LegABeforeLegB ==
    /\ \A i \in 2..Len(last.trace) : last.trace[i - 1].ok
    /\ SplitProceeds(last)
          => /\ Len(last.trace) \in {1, 2}
             /\ IsLegA(last, last.trace[1].program)
             /\ Len(last.trace) = 2
                  => /\ last.trace[1].ok
                     /\ IsLegB(last, last.trace[2].program)
                     /\ ~IsLegA(last, last.trace[2].program)
             /\ last.res = "Ok"
                  => /\ Len(queue) = 2
                     /\ queue[1].program = last.trace[1].program
                     /\ queue[2].program = last.trace[2].program

\* Leg A of a split request failed in the executor: leg B was not run.
C12_Witness ==
    /\ SplitProceeds(last)
    /\ Len(last.trace) = 1
    /\ ~last.trace[1].ok
    /\ last.res = "XcmExecutionFailed"

\* The operations of a program, in order.

\* The Transact program of transfer_with_transact for the sender who, the
\* fee asset and the refund beneficiary given.
IsTransactProgram(program, who, fee_asset, beneficiary) ==
    /\ [i \in 1..Len(program) |-> program[i].op] = <<"DescendOrigin", "WithdrawAsset", "BuyExecution", "Transact",
                        "RefundSurplus", "DepositAsset">>
    /\ program[1].interior = AccountIdToMultiLocation(who).interior
    /\ program[2].assets = <<fee_asset>>
    /\ program[3].fees = fee_asset
    /\ program[4].call \in EncodedCalls
    /\ program[6].beneficiary = beneficiary

\* C13: a successful transfer_with_transact produces exactly two outbound
\* programs, in this order: the reserve transfer program carrying amount,
\* then the Transact program [DescendOrigin(sender interior),
\* WithdrawAsset(transact fee), BuyExecution, Transact, RefundSurplus,
\* DepositAsset to self_location with the sender's interior appended], sent
\* to the destination chain. The Transact program is handed to the
\* transport only after the transfer program executed, and a failure of the
\* transport gives SendFailure.
C13_TransferThenTransact ==
    last.call = "transfer_with_transact"
        => /\ last.res = "Ok"
                => /\ Len(last.trace) = 2
                   /\ Len(queue) = 2
                   /\ queue[1].program = last.trace[1].program
                   /\ queue[2].program = last.trace[2].program
                   /\ last.trace[1].via = "executor"
                   /\ last.trace[1].program[1].op
                        \in {"TransferReserveAsset", "WithdrawAsset"}
                   /\ Withdrawn(last.trace[1].program)
                        = <<AssetOf(last.args.currency_id, last.args.amount)>>
                   /\ last.trace[2].via = "transport"
                   /\ last.trace[2].ok
                   /\ queue[2].to = InputDest(last)
                   /\ IsTransactProgram(
                          last.trace[2].program, Alice,
                          Unwrap(reanchored(AssetOf(last.args.currency_id,
                                                    last.args.transact_fee),
                                            InputDest(last), Ancestry)),
                          append_with(SelfLocation,
                                      AccountIdToMultiLocation(Alice).interior))
           /\ \A i \in 1..Len(last.trace) :
                 last.trace[i].via = "transport"
                     => /\ i = 2
                        /\ last.trace[1].via = "executor"
                        /\ last.trace[1].ok
                        /\ ~last.trace[i].ok => last.res = "SendFailure"

\* A transfer with a paid Transact was sent after its transfer.
C13_Witness ==
    /\ last.call = "transfer_with_transact"
    /\ last.res = "Ok"
    /\ last.args.transact_fee > 0
    /\ Len(queue) = 2
    /\ queue[2].program[1].op = "DescendOrigin"

\* The BuyExecution instructions of a program, nested programs included.
RECURSIVE BuyInstructions(_)
BuyInstructions(msg) ==
    IF msg = <<>> THEN <<>>
    ELSE (IF msg[1].op = "BuyExecution" THEN <<msg[1]>> ELSE <<>>)
         \o (IF "xcm" \in DOMAIN msg[1] THEN BuyInstructions(msg[1].xcm) ELSE <<>>)
         \o BuyInstructions(Tail(msg))

\* The program withdraws to a reserve that forwards to another chain.
IsToNonReserve(program) ==
    /\ Len(program) = 2
    /\ program[2].op = "InitiateReserveWithdraw"
    /\ \E i \in 1..Len(program[2].xcm) : program[2].xcm[i].op = "DepositReserveAsset"

\* The dispatch built a first program, through a reserve that forwards.
FirstIsToNonReserve ==
    /\ last.call \in TransferCalls
    /\ Len(last.trace) >= 1
    /\ last.trace[1].via = "executor"
    /\ IsToNonReserve(last.trace[1].program)

\* The fee the first program of the dispatch was built from: the fee of the
\* request, or in a split the fee less the minimum.
FirstProgramFee ==
    IF SplitProceeds(last)
    THEN RequestOf(last).fee.amount - SplitMinXcmFee(last)
    ELSE RequestOf(last).fee.amount

\* C14 (as claimed): every ToNonReserve program built from a fee of amount f,
\* odd or even, has exactly two BuyExecution instructions whose fee amounts
\* sum to f.
C14_HalvesSumToFee ==
    FirstIsToNonReserve
        => /\ Len(BuyInstructions(last.trace[1].program)) = 2
           /\ BuyInstructions(last.trace[1].program)[1].fees.amount
                + BuyInstructions(last.trace[1].program)[2].fees.amount = FirstProgramFee

\* C14 (amended): every ToNonReserve program built from a fee of amount f
\* has exactly two BuyExecution instructions, each with the fee amount
\* f div 2; they sum to f when f is even and to f - 1 when f is odd.
C14_TwoHalvesRoundedDown ==
    FirstIsToNonReserve
        => /\ Len(BuyInstructions(last.trace[1].program)) = 2
           /\ BuyInstructions(last.trace[1].program)[1].fees.amount = FirstProgramFee \div 2
           /\ BuyInstructions(last.trace[1].program)[2].fees.amount = FirstProgramFee \div 2
           /\ BuyInstructions(last.trace[1].program)[1].fees.amount
                + BuyInstructions(last.trace[1].program)[2].fees.amount
              = FirstProgramFee - (FirstProgramFee % 2)

\* A ToNonReserve program built from an odd fee was executed.
C14_Witness ==
    /\ FirstIsToNonReserve
    /\ last.trace[1].ok
    /\ FirstProgramFee % 2 = 1
    /\ BuyInstructions(last.trace[1].program)[1].fees.amount
         + BuyInstructions(last.trace[1].program)[2].fees.amount = FirstProgramFee - 1

\* The beneficiaries of the DepositAsset instructions of a program, nested
\* programs included, in order.
RECURSIVE Beneficiaries(_)
Beneficiaries(msg) ==
    IF msg = <<>> THEN <<>>
    ELSE (IF msg[1].op = "DepositAsset" THEN <<msg[1].beneficiary>> ELSE <<>>)
         \o (IF "xcm" \in DOMAIN msg[1] THEN Beneficiaries(msg[1].xcm) ELSE <<>>)
         \o Beneficiaries(Tail(msg))

\* The kind the claim gives the reserve R and the destination chain D.
KindClaimed(R, D) ==
    IF R = SelfLocation THEN "SelfReserveAsset"
    ELSE IF R = D THEN "ToReserve"
    ELSE "ToNonReserve"

\* The program starts as the kind claimed for R and D starts.
StartsAsKind(program, R, D) ==
    CASE KindClaimed(R, D) = "SelfReserveAsset" ->
            /\ program[1].op = "TransferReserveAsset"
            /\ program[1].dest = D
      [] KindClaimed(R, D) = "ToReserve" ->
            /\ Len(program) = 2
            /\ program[1].op = "WithdrawAsset"
            /\ program[2].op = "InitiateReserveWithdraw"
            /\ program[2].reserve = D
            /\ ~IsToNonReserve(program)
      [] OTHER ->
            /\ program[1].op = "WithdrawAsset"
            /\ IsToNonReserve(program)
            /\ program[2].reserve = R

\* The reserve handed to execute_and_send_reserve_kind_xcm for the i-th
\* program of the dispatch d.
StepReserve(d, i) ==
    IF SplitProceeds(d) /\ i = 2
    THEN Unwrap(ReserveLoop(RequestOf(d).assets, RequestOf(d).fee, 1, None).non_fee_reserve)
    ELSE Unwrap(reserve(RequestOf(d).fee))

\* The recipient override handed to execute_and_send_reserve_kind_xcm for
\* the i-th program of the dispatch d.
StepOverride(d, i) ==
    IF SplitProceeds(d)
    THEN (IF i = 1 THEN Some(SelfLocation) ELSE None)
    ELSE RequestOf(d).override_recipient

\* The beneficiary of the i-th program of the dispatch d: the override when
\* one is given, the non-chain part of the destination otherwise.
StepBeneficiary(d, i) ==
    IF StepOverride(d, i) # None
    THEN Unwrap(StepOverride(d, i))
    ELSE Unwrap(non_chain_part(RequestOf(d).dest))

\* C15: for every reserve R and destination with chain part D other than
\* the self location the classifier returns SelfReserve iff R is the self
\* location, ToReserve iff R is not and R = D, ToNonReserve otherwise; the
\* program built starts with TransferReserveAsset to D for SelfReserve,
\* with WithdrawAsset and InitiateReserveWithdraw on D for ToReserve and on
\* R for ToNonReserve, and its DepositAsset beneficiary is the non-chain
\* part of the destination unless a recipient override is given.
C15_KindDecidesProgram ==
    /\ \A R \in {Parent, SelfLocation, Sibling}, dest \in Dests :
          (ensure_valid_dest(dest) # None /\ chain_part(dest) # Some(SelfLocation))
              => /\ transfer_kind(Some(R), dest).res = "Ok"
                 /\ transfer_kind(Some(R), dest).kind
                      = KindClaimed(R, Unwrap(chain_part(dest)))
    /\ last.call \in TransferCalls
          => \A i \in 1..Len(last.trace) :
                 last.trace[i].via = "executor"
                     => /\ chain_part(RequestOf(last).dest) # Some(SelfLocation)
                        /\ StartsAsKind(last.trace[i].program, StepReserve(last, i),
                                        Unwrap(chain_part(RequestOf(last).dest)))
                        /\ Beneficiaries(last.trace[i].program)
                             = <<StepBeneficiary(last, i)>>

\* A split whose first program goes through a reserve that forwards and
\* whose second goes to the reserve itself, each with its beneficiary.
C15_Witness ==
    /\ last.call \in TransferCalls
    /\ last.res = "Ok"
    /\ Len(last.trace) = 2
    /\ last.trace[2].via = "executor"
    /\ KindClaimed(StepReserve(last, 1), Unwrap(chain_part(RequestOf(last).dest)))
         = "ToNonReserve"
    /\ KindClaimed(StepReserve(last, 2), Unwrap(chain_part(RequestOf(last).dest)))
         = "ToReserve"
    /\ Beneficiaries(last.trace[1].program) = <<SelfLocation>>
    /\ Beneficiaries(last.trace[2].program)
         = <<Unwrap(non_chain_part(RequestOf(last).dest))>>

\* The request r is a bundle of two or more assets to a valid destination
\* whose non-fee assets share the reserve of the destination chain, whose
\* fee has another reserve, and whose fee is above the minimum registered
\* for either reserve.
CrossReserveToDest(r) ==
    /\ r.res = "Ok"
    /\ Len(r.assets) >= 2
    /\ Len(r.assets) <= MaxAssetsForTransfer
    /\ MultiLocationsFilter(r.dest)
    /\ ensure_valid_dest(r.dest) # None
    /\ \A i \in 1..Len(r.assets) : r.assets[i].fungible /\ r.assets[i].amount # 0
    /\ reserve(r.fee) # None
    /\ {reserve(r.assets[i]) : i \in {k \in 1..Len(r.assets) : r.assets[k] # r.fee}}
         = {chain_part(r.dest)}
    /\ reserve(r.fee) # chain_part(r.dest)
    /\ MinXcmFee(Unwrap(chain_part(r.dest))) # None
    /\ Unwrap(MinXcmFee(Unwrap(chain_part(r.dest)))) < r.fee.amount
    /\ MinXcmFee(Unwrap(reserve(r.fee))) # None
    /\ Unwrap(MinXcmFee(Unwrap(reserve(r.fee)))) < r.fee.amount

\* C16 (as claimed): the routing does not depend on where the fee asset
\* sits in the canonical order of the bundle: a bundle of two or more
\* assets whose fee reserve differs from the common reserve of the non-fee
\* assets, that reserve being the destination chain, and whose fee is above
\* the minimum, is routed as a split, leg A first, and commits with two
\* programs (unless the executor cannot complete one), whether the fee
\* sorts before, between or after the non-fee assets.
C16_SplitWhateverFeePosition ==
    (last.call \in TransferCalls /\ CrossReserveToDest(RequestOf(last)))
        => /\ last.res \in {"Ok", "XcmExecutionFailed"}
           /\ Len(last.trace) >= 1
           /\ IsLegA(last, last.trace[1].program)
           /\ last.res = "Ok" => Len(last.trace) = 2

\* The dispatch d takes the split branch and reaches the lookup of the
\* minimum fee.
ReachesMinXcmFee(d) ==
    /\ CrossReserve(d)
    /\ ReserveLoop(RequestOf(d).assets, RequestOf(d).fee, 1, None).non_fee_reserve
         = chain_part(RequestOf(d).dest)
    /\ chain_part(RequestOf(d).dest) # None

\* The minimum fee registered for a reserve, none for no reserve.
MinXcmFeeOf(reserve_opt) ==
    IF reserve_opt = None THEN None ELSE MinXcmFee(Unwrap(reserve_opt))

\* The outcome of the dispatch d when min_opt is the minimum the split
\* uses: MinXcmFeeNotDefined when absent, FeeNotEnough when the fee is not
\* above it, and otherwise legs that carry fee - min and min of the fee
\* asset.
SplitUsesMin(d, min_opt) ==
    IF min_opt = None
    THEN d.res = "MinXcmFeeNotDefined" /\ d.trace = <<>>
    ELSE IF ~(Unwrap(min_opt) < RequestOf(d).fee.amount)
    THEN d.res = "FeeNotEnough" /\ d.trace = <<>>
    ELSE /\ d.res \notin {"MinXcmFeeNotDefined", "FeeNotEnough"}
         /\ Len(d.trace) >= 1
              => Withdrawn(d.trace[1].program)
                   = <<Asset(RequestOf(d).fee.id,
                             RequestOf(d).fee.amount - Unwrap(min_opt))>>
         /\ Len(d.trace) >= 2
              => Total(Withdrawn(d.trace[2].program), RequestOf(d).fee.id)
                   = Unwrap(min_opt)

\* C17 (as claimed): in split routing the minimum fee of the FeeNotEnough
\* test and of the fee split is the one registered for the fee reserve; a
\* fee reserve with none fails with MinXcmFeeNotDefined, whatever is
\* registered for the destination.
C17_MinFeeOfFeeReserve ==
    ReachesMinXcmFee(last)
        => SplitUsesMin(last, MinXcmFeeOf(reserve(RequestOf(last).fee)))

\* C17 (amended): in split routing the minimum fee of the FeeNotEnough test
\* and of the fee split is the one registered for the non-fee reserve,
\* which is the destination chain; a destination chain with none fails with
\* MinXcmFeeNotDefined, and the entry of the fee reserve is not consulted:
\* the split goes on when the fee reserve has none.
C17_MinFeeOfDestChain ==
    ReachesMinXcmFee(last)
        => SplitUsesMin(last, MinXcmFee(Unwrap(chain_part(RequestOf(last).dest))))

\* A split whose fee reserve has no minimum registered: leg A is executed
\* with the fee less the minimum of the destination chain.
C17_Witness ==
    /\ ReachesMinXcmFee(last)
    /\ MinXcmFeeOf(reserve(RequestOf(last).fee)) = None
    /\ MinXcmFee(Unwrap(chain_part(RequestOf(last).dest))) = Some(MinXcmFeeSibling)
    /\ Len(last.trace) >= 1
    /\ last.trace[1].ok
    /\ Withdrawn(last.trace[1].program)
         = <<Asset(RequestOf(last).fee.id, RequestOf(last).fee.amount - MinXcmFeeSibling)>>

\* The first program of the split dispatch d carries the fee asset alone,
\* less the minimum, is routed with the reserve of the fee, and deposits to
\* the beneficiary given.
LegADepositsTo(d, beneficiary) ==
    /\ IsLegA(d, d.trace[1].program)
    /\ StartsAsKind(d.trace[1].program, Unwrap(reserve(RequestOf(d).fee)),
                    Unwrap(chain_part(RequestOf(d).dest)))
    /\ Beneficiaries(d.trace[1].program) = <<beneficiary>>

WithFeeSlot(r, m) ==
    Canonical([i \in 1..Len(r.assets) |->
                  IF r.assets[i] = r.fee THEN Asset(r.fee.id, m) ELSE r.assets[i]],
              <<>>)

\* C19: in a split transfer the bundle of leg B holds every non-fee asset
\* of the input bundle with its amount unchanged and exactly one entry
\* (fee.id, min_xcm_fee) in place of the fee; its BuyExecution fee is
\* (fee.id, min_xcm_fee) reanchored to the destination chain, its kind is
\* ToReserve with the destination chain as reserve, and its beneficiary is
\* the non-chain part of the destination.
C19_LegBCarriesMinFee ==
    (SplitProceeds(last) /\ Len(last.trace) = 2)
        => /\ last.trace[2].via = "executor"
           /\ Withdrawn(last.trace[2].program)
                = WithFeeSlot(RequestOf(last), SplitMinXcmFee(last))
           /\ IsLegB(last, last.trace[2].program)
           /\ Cardinality({k \in 1..Len(Withdrawn(last.trace[2].program)) :
                              Withdrawn(last.trace[2].program)[k].id
                                  = RequestOf(last).fee.id}) = 1
           /\ Len(Withdrawn(last.trace[2].program)) = Len(RequestOf(last).assets)
           /\ Len(BuyInstructions(last.trace[2].program)) = 1
           /\ BuyInstructions(last.trace[2].program)[1].fees
                = Unwrap(reanchored(Asset(RequestOf(last).fee.id, SplitMinXcmFee(last)),
                                    Unwrap(chain_part(RequestOf(last).dest)), Ancestry))
           /\ Len(last.trace[2].program) = 2
           /\ last.trace[2].program[2].op = "InitiateReserveWithdraw"
           /\ last.trace[2].program[2].reserve
                = Unwrap(chain_part(RequestOf(last).dest))
           /\ ~IsToNonReserve(last.trace[2].program)
           /\ last.trace[2].to = Unwrap(chain_part(RequestOf(last).dest))
           /\ Beneficiaries(last.trace[2].program)
                = <<Unwrap(non_chain_part(RequestOf(last).dest))>>

\* A split that committed: leg B carries the non-fee asset and the minimum
\* of the fee asset, less than the fee of the request.
C19_Witness ==
    /\ SplitProceeds(last)
    /\ last.res = "Ok"
    /\ Len(last.trace) = 2
    /\ last.trace[2].ok
    /\ Len(Withdrawn(last.trace[2].program)) = 2
    /\ Total(Withdrawn(last.trace[2].program), RequestOf(last).fee.id)
         = SplitMinXcmFee(last)
    /\ BuyInstructions(last.trace[2].program)[1].fees.amount = SplitMinXcmFee(last)
    /\ SplitMinXcmFee(last) < RequestOf(last).fee.amount

\* The DepositReserveAsset instruction of a ToNonReserve program.
Forwarding(program) == program[2].xcm[2]

\* The reserve is the hub and the destination chain a parachain under it.
HubToParachain(R, D) ==
    /\ R = Loc(1, <<>>)
    /\ D.parents = 1
    /\ Len(D.interior) = 1
    /\ D.interior[1][1] = "Parachain"

\* C20: in a ToNonReserve program the forwarded destination of
\* DepositReserveAsset is rewritten to (parents 0, Parachain(id)) exactly
\* when the reserve is the hub (parents 1, no interior) and the destination
\* chain is (parents 1, Parachain(id)); in every other case it equals the
\* destination chain unchanged; the inner BuyExecution fee is always
\* reanchored against the destination chain as it was before the rewrite.
C20_ForwardedDestRewrite ==
    FirstIsToNonReserve
        => /\ Forwarding(last.trace[1].program).op = "DepositReserveAsset"
           /\ HubToParachain(last.trace[1].program[2].reserve,
                             Unwrap(chain_part(RequestOf(last).dest)))
                => Forwarding(last.trace[1].program).dest
                     = Loc(0, <<Unwrap(chain_part(RequestOf(last).dest)).interior[1]>>)
           /\ ~HubToParachain(last.trace[1].program[2].reserve,
                              Unwrap(chain_part(RequestOf(last).dest)))
                => Forwarding(last.trace[1].program).dest
                     = Unwrap(chain_part(RequestOf(last).dest))
           /\ Forwarding(last.trace[1].program).xcm[1].op = "BuyExecution"
           /\ Forwarding(last.trace[1].program).xcm[1].fees
                = Unwrap(reanchored(Asset(RequestOf(last).fee.id, FirstProgramFee \div 2),
                                    Unwrap(chain_part(RequestOf(last).dest)), Ancestry))

\* A transfer of the hub asset to a sibling parachain: the forwarded
\* destination is the parachain as the hub sees it, and the fee of the
\* inner BuyExecution is reanchored against the parachain as the sender
\* sees it.
C20_Witness ==
    /\ FirstIsToNonReserve
    /\ last.trace[1].ok
    /\ last.trace[1].program[2].reserve = Parent
    /\ chain_part(RequestOf(last).dest) = Some(Sibling)
    /\ Forwarding(last.trace[1].program).dest = Loc(0, <<Parachain(3000)>>)
    /\ Forwarding(last.trace[1].program).xcm[1].fees.amount >= 1

=============================================================================
